---------------------------- MODULE Spec2Model ----------------------------
(***************************************************************************)
(* Model of the per-tenant vector store of college-rag-bot                 *)
(* (app/utils/vectorstore.py, class CollegeVectorStore) and of the two     *)
(* callers that open it: DocumentService.process_document (ingestion) and  *)
(* ChatService.process_query (retrieval).                                  *)
(*                                                                         *)
(* A store instance holds three parallel sequences: the FAISS index (one   *)
(* vector per slot), self.metadata (one record per slot) and               *)
(* self.documents (one chunk text per slot).  On disk the tenant has three *)
(* artifacts: faiss_index, metadata.pkl and documents.pkl.                 *)
(*                                                                         *)
(* Conventions of the model:                                               *)
(*  - every inserted chunk gets a serial number (field "chunk"); the text  *)
(*    of a chunk is represented by its serial number, and the vector and   *)
(*    the record made from a chunk carry the same serial number, so that   *)
(*    "slot i of the index, record i and text i belong to the same chunk"  *)
(*    is a comparison of serial numbers;                                   *)
(*  - an embedding is a tuple of integers; the unit vector v/|v| that      *)
(*    faiss.normalize_L2 produces is represented by the primitive integer  *)
(*    vector of the same direction (v divided by the gcd of its entries),  *)
(*    so two parallel embeddings normalise to the same stored vector;      *)
(*  - the "timestamp" field of a record (datetime.now()) is left out.      *)
(***************************************************************************)
EXTENDS Integers, Sequences, FiniteSets, TLC

(***************************************************************************)
(* Bounds of the model.                                                    *)
(***************************************************************************)
\* most slots one store instance may hold (guard of the add operations)
MaxSlots == 3
\* number of chunks ever inserted in one behaviour (serial numbers 1..MaxChunks)
MaxChunks == 3

\* lengths of the batches handed to add_documents (the empty batch included)
BatchSizes == {0, 1, 2}

\* settings.TOP_K_RETRIEVAL
TOP_K_RETRIEVAL == 5

\* values of top_k handed to search
TopKs == {1, 2, TOP_K_RETRIEVAL}

\* document ids of the tenant (str(db_document.id))
DocIds == {"A", "B"}

\* embeddings the provider may return; two dimensionalities
InputVectors == {<<2>>, <<0, 2>>, <<1, 1>>}

\* query embeddings
Queries == {<<3>>, <<1, 0>>}

\* the two tasks that may hold a store instance of the tenant
Procs == {1, 2}

VARIABLES
    inst,       \* inst[p]: the CollegeVectorStore instance task p holds
    pc,         \* pc[p]: where task p stands in the handler it runs
    op,         \* op[p]: the arguments of the handler task p runs
    disk,       \* the tenant's three artifacts under vectorstore_dir
    nextChunk,  \* serial number of the next chunk handed to add_documents
    last,       \* the last call that finished: its arguments and its outcome
    txn,        \* the artifacts as they were when the save under way began
    committed,  \* serial numbers of the chunks whose add_documents returned
    db          \* the relational tables: documents and document_chunks

vars == <<inst, pc, op, disk, nextChunk, last, txn, committed, db>>

(***************************************************************************)
(* Helpers on sequences and integers.                                      *)
(***************************************************************************)
Abs(x) == IF x < 0 THEN -x ELSE x

RECURSIVE Gcd(_, _)
Gcd(a, b) == IF b = 0 THEN a ELSE Gcd(b, a % b)

RECURSIVE GcdSeq(_)
GcdSeq(v) == IF v = <<>> THEN 0 ELSE Gcd(Abs(Head(v)), GcdSeq(Tail(v)))

(***************************************************************************)
(* The store instance.                                                     *)
(***************************************************************************)
\* self.index = None
NoIndex == [present |-> FALSE, d |-> 0, vecs |-> <<>>]

\* faiss.IndexFlatL2(dimension): an empty flat index of fixed dimension
IndexFlatL2(dimension) == [present |-> TRUE, d |-> dimension, vecs |-> <<>>]

\* index.ntotal (read only where the index is not None)
NTotal(index) == Len(index.vecs)

\* _initialize_new_index: no metadata, no documents, index None
InitializeNewIndex == [index |-> NoIndex, metadata |-> <<>>, documents |-> <<>>]

\* a variant of NormalizeL2: the row is stored as the provider gave it
NormalizeL2Skipped(v) == v

\* faiss.normalize_L2 on one row: the unit vector of the same direction
\* (the zero vector is left as it is)
NormalizeL2(v) ==
    LET g == GcdSeq(v)
    IN  IF g = 0 THEN v ELSE [i \in DOMAIN v |-> v[i] \div g]

(***************************************************************************)
(* The three artifacts.  A file is absent, holds a value ("ok"), or holds  *)
(* bytes that do not deserialize ("corrupt": truncated or half written).   *)
(***************************************************************************)
AbsentIndexFile == [kind |-> "absent", data |-> NoIndex]
CorruptIndexFile == [kind |-> "corrupt", data |-> NoIndex]
IndexFile(index) == [kind |-> "ok", data |-> index]
AbsentListFile == [kind |-> "absent", data |-> <<>>]
CorruptListFile == [kind |-> "corrupt", data |-> <<>>]
ListFile(list) == [kind |-> "ok", data |-> list]

NoFiles ==
    [index |-> AbsentIndexFile, metadata |-> AbsentListFile,
     documents |-> AbsentListFile]

\* the triple a complete save of instance st leaves
Triple(st) ==
    [index |-> IndexFile(st.index), metadata |-> ListFile(st.metadata),
     documents |-> ListFile(st.documents)]

(***************************************************************************)
(* open: __init__ and _load_or_initialize.                                 *)
(***************************************************************************)
\* os.path.exists on the three paths (line 39)
AllExist(dk) ==
    /\ dk.index.kind # "absent"
    /\ dk.metadata.kind # "absent"
    /\ dk.documents.kind # "absent"

\* faiss.read_index / pickle.load raises on bytes that do not deserialize
\* (and on a file another task removed after the existence test)
Readable(file) == file.kind = "ok"

\* the try block (lines 40-52) runs to its end: the three reads succeed and the
\* log line can read self.index.ntotal (read_index gave an index, not None)
LoadSucceeds(dk) ==
    /\ Readable(dk.index)
    /\ Readable(dk.metadata)
    /\ Readable(dk.documents)
    /\ dk.index.data.present

\* _load_or_initialize as one call on the artifacts dk: the loaded instance
LoadOrInitialize(dk) ==
    IF AllExist(dk) /\ LoadSucceeds(dk)
    THEN [index |-> dk.index.data, metadata |-> dk.metadata.data,
          documents |-> dk.documents.data]
    ELSE InitializeNewIndex

(***************************************************************************)
(* add_documents.  documents: the chunks, each [document_id, chunk_index,  *)
(* chunk]; embeddings: one [v, chunk] per embedded chunk.                  *)
(***************************************************************************)
\* line 69: nothing to add, the call returns without touching anything
NothingToAdd(documents, embeddings) == documents = <<>> \/ embeddings = <<>>

\* np.array(embeddings).astype('float32') (line 74) needs rows of one length
Rectangular(embeddings) ==
    \A i, j \in DOMAIN embeddings : Len(embeddings[i].v) = Len(embeddings[j].v)

\* lines 77-79: the index the rows are added to
IndexForAdd(index, embeddings) ==
    IF index.present THEN index ELSE IndexFlatL2(Len(embeddings[1].v))

\* a variant of DimensionMatches: index.add takes rows of any length
DimensionUnchecked(index, embeddings) == TRUE

\* index.add (line 84) refuses rows whose length is not the index dimension
DimensionMatches(index, embeddings) ==
    IndexForAdd(index, embeddings).d = Len(embeddings[1].v)

\* add_documents raises before it changed anything
AddRaises(st, documents, embeddings) ==
    /\ ~NothingToAdd(documents, embeddings)
    /\ ~(Rectangular(embeddings) /\ DimensionMatches(st.index, embeddings))

\* lines 83-84: the rows, normalised, appended to the index in input order
IndexAdd(index, embeddings) ==
    [index EXCEPT !.vecs =
        @ \o [j \in 1..Len(embeddings) |->
                [v |-> NormalizeL2(embeddings[j].v), chunk |-> embeddings[j].chunk]]]

\* lines 92-99: the record of the i-th chunk of the batch (i counts from 0);
\* doc_id is the slot the record is appended at
MakeMeta(start_idx, i, doc) ==
    [doc_id |-> start_idx + i, chunk_index |-> doc.chunk_index,
     document_id |-> doc.document_id, chunk |-> doc.chunk]

\* a variant of AddInMemory: the batch is put before the slots already held
AddInMemoryPrepended(st, documents, embeddings) ==
    LET start_idx == Len(st.metadata)
        index == IndexForAdd(st.index, embeddings)
    IN  [index |-> [index EXCEPT !.vecs =
                       IndexAdd(IndexFlatL2(index.d), embeddings).vecs \o @],
         metadata |->
             [j \in 1..Len(documents) |-> MakeMeta(start_idx, j - 1, documents[j])]
                 \o st.metadata,
         documents |-> [j \in 1..Len(documents) |-> documents[j].chunk] \o st.documents]

\* lines 76-107: the instance after the in-memory part of a successful add
AddInMemory(st, documents, embeddings) ==
    LET start_idx == Len(st.metadata)
    IN  [index |-> IndexAdd(IndexForAdd(st.index, embeddings), embeddings),
         metadata |-> st.metadata \o
             [j \in 1..Len(documents) |-> MakeMeta(start_idx, j - 1, documents[j])],
         documents |-> st.documents \o
             [j \in 1..Len(documents) |-> documents[j].chunk]]

(***************************************************************************)
(* _save_index: three writes in place, one after the other, then the log   *)
(* line that reads self.index.ntotal.                                      *)
(***************************************************************************)
\* faiss.write_index(self.index, self.index_path) (line 116): the index artifact
\* afterwards, and whether the call raised.  With self.index None the outcome
\* depends on the faiss build: the binding rejects None before the file is
\* opened; or the file is opened (truncated) and serialisation raises; or a
\* "null" index is written.
WriteIndexOutcomes(index, file) ==
    IF index.present
    THEN {[file |-> IndexFile(index), raised |-> FALSE]}
    ELSE {[file |-> file, raised |-> TRUE],
          [file |-> CorruptIndexFile, raised |-> TRUE],
          [file |-> IndexFile(NoIndex), raised |-> FALSE]}

\* pickle.dump(self.metadata) (lines 119-120)
WriteMetadata(st, dk) == [dk EXCEPT !.metadata = ListFile(st.metadata)]

\* a variant of WriteDocuments: the documents artifact is not rewritten
WriteDocumentsSkipped(st, dk) == dk

\* pickle.dump(self.documents) (lines 123-124)
WriteDocuments(st, dk) == [dk EXCEPT !.documents = ListFile(st.documents)]

\* line 126 reads self.index.ntotal: AttributeError when the index is None
SaveLogRaises(st) == ~st.index.present

\* _save_index as one call: the artifacts afterwards and whether it raised
SaveOutcomes(st, dk) ==
    {IF w.raised
     THEN [disk |-> [dk EXCEPT !.index = w.file], raised |-> TRUE]
     ELSE [disk |-> WriteDocuments(st, WriteMetadata(st, [dk EXCEPT !.index = w.file])),
           raised |-> SaveLogRaises(st)]
     : w \in WriteIndexOutcomes(st.index, dk.index)}

(***************************************************************************)
(* delete_document.                                                        *)
(***************************************************************************)
RECURSIVE KeepFrom(_, _, _)
\* lines 170-173: the slots from i on whose record is not of document_id,
\* ascending (slots count from 1 here, from 0 in the code)
KeepFrom(metadata, document_id, i) ==
    IF i > Len(metadata) THEN <<>>
    ELSE IF metadata[i].document_id # document_id
         THEN <<i>> \o KeepFrom(metadata, document_id, i + 1)
         ELSE KeepFrom(metadata, document_id, i + 1)

\* a variant of IndicesToKeep: the test of line 172 inverted, the slots of
\* document_id are the ones kept
IndicesToKeepInverted(metadata, document_id) ==
    SelectSeq([i \in 1..Len(metadata) |-> i],
              LAMBDA i : metadata[i].document_id = document_id)

IndicesToKeep(metadata, document_id) == KeepFrom(metadata, document_id, 1)

\* lines 165 and 175: the call returns at once, nothing to delete
NothingToDelete(st, document_id) ==
    \/ ~st.index.present
    \/ NTotal(st.index) = 0
    \/ Len(IndicesToKeep(st.metadata, document_id)) = Len(st.metadata)

\* index.reconstruct(old_idx) (line 188) raises for a slot the index does not
\* hold; self.documents[i] (line 196) for a text the list does not hold
RebuildRaises(st, keep) ==
    \E j \in DOMAIN keep : keep[j] > NTotal(st.index) \/ keep[j] > Len(st.documents)

\* a variant of DeleteInMemory: the records and texts are filtered but the old
\* index is kept instead of the rebuilt one
DeleteInMemoryStaleIndex(st, document_id) ==
    LET keep == IndicesToKeep(st.metadata, document_id)
    IN  IF Len(keep) > 0
        THEN [index |-> st.index,
              metadata |-> [j \in 1..Len(keep) |-> st.metadata[keep[j]]],
              documents |-> [j \in 1..Len(keep) |-> st.documents[keep[j]]]]
        ELSE InitializeNewIndex

\* a variant of DeleteInMemory: the rebuilt index takes the first vectors of
\* the old index instead of the vectors at indices_to_keep
DeleteInMemoryFirstVectors(st, document_id) ==
    LET keep == IndicesToKeep(st.metadata, document_id)
    IN  IF Len(keep) > 0
        THEN [index |-> [st.index EXCEPT !.vecs =
                            [j \in 1..Len(keep) |-> st.index.vecs[j]]],
              metadata |-> [j \in 1..Len(keep) |-> st.metadata[keep[j]]],
              documents |-> [j \in 1..Len(keep) |-> st.documents[keep[j]]]]
        ELSE InitializeNewIndex

\* lines 180-204: the instance after the in-memory part of a delete that found
\* something to delete
DeleteInMemory(st, document_id) ==
    LET keep == IndicesToKeep(st.metadata, document_id)
    IN  IF Len(keep) > 0
        THEN [index |-> [st.index EXCEPT !.vecs =
                            [j \in 1..Len(keep) |-> st.index.vecs[keep[j]]]],
              metadata |-> [j \in 1..Len(keep) |-> st.metadata[keep[j]]],
              documents |-> [j \in 1..Len(keep) |-> st.documents[keep[j]]]]
        ELSE InitializeNewIndex

(***************************************************************************)
(* search.                                                                 *)
(***************************************************************************)
Dot(u, w) ==
    LET RECURSIVE Sum(_)
        Sum(i) == IF i = 0 THEN 0 ELSE u[i] * w[i] + Sum(i - 1)
    IN  Sum(Len(u))

\* x * |x|: keeps the order of x and makes the comparison below exact
SignedSquare(x) == x * Abs(x)

\* a variant of Nearer: the comparison of the distances reversed
NearerReversed(u, w, query) ==
    SignedSquare(Dot(u, query)) * Dot(w, w) < SignedSquare(Dot(w, query)) * Dot(u, u)

\* the unit vector of direction u is strictly nearer to the (normalised) query
\* than the unit vector of direction w: its cosine with the query is larger,
\* that is (u.q)/|u| > (w.q)/|w|  (u, w and query are not the zero vector)
Nearer(u, w, query) ==
    SignedSquare(Dot(u, query)) * Dot(w, w) > SignedSquare(Dot(w, query)) * Dot(u, u)

\* a variant of NothingToSearch: ntotal is read without the test for None
NothingToSearchNoneUntested(st) == st.index.present /\ NTotal(st.index) = 0

\* line 130: the index holds nothing to search
NothingToSearch(st) == ~st.index.present \/ NTotal(st.index) = 0

\* index.search (line 142) refuses a query whose length is not the dimension
QueryMatches(index, query) == index.d = Len(query)

\* the label rows index.search may return for top_k: min(top_k, ntotal) distinct
\* slots by ascending distance, none nearer left out (the labels past ntotal
\* are -1 and dropped by line 149).  The order among slots at equal distance
\* is the library's and is left open.
SearchLabels(index, query, top_k) ==
    LET n == NTotal(index)
        m == IF top_k < n THEN top_k ELSE n
        q == NormalizeL2(query)
    IN  {r \in [1..m -> 1..n] :
            /\ \A i, j \in 1..m : i # j => r[i] # r[j]
            /\ \A i, j \in 1..m : i < j => ~Nearer(index.vecs[r[j]].v, index.vecs[r[i]].v, q)
            /\ \A i \in 1..m : \A e \in (1..n) \ {r[j] : j \in 1..m} :
                   ~Nearer(index.vecs[e].v, index.vecs[r[i]].v, q)}

\* a variant of LabelsKept: the bound of line 149 is one too small
LabelsKeptOffByOne(st, labels) == SelectSeq(labels, LAMBDA idx : idx < Len(st.documents))

\* line 149: the labels that pass "idx < len(self.documents) and idx >= 0"
LabelsKept(st, labels) == SelectSeq(labels, LAMBDA idx : idx <= Len(st.documents))

\* self.metadata[idx] (line 153) raises for a label the list does not hold
ResultRaises(st, labels) ==
    \E i \in DOMAIN labels : labels[i] <= Len(st.documents) /\ labels[i] > Len(st.metadata)

\* the cosine of the angle between u and w, kept exact as the reduced fraction
\* num/den of cos * |cos| (neither vector is the zero vector)
Cosine(u, w) ==
    LET num == SignedSquare(Dot(u, w))
        den == Dot(u, u) * Dot(w, w)
        g == Gcd(Abs(num), den)
    IN  [num |-> num \div g, den |-> den \div g]

\* line 155: similarity = 1 - distance / 2, where distance is the squared L2
\* distance of two unit vectors, 2 - 2 cos: the similarity is the cosine
\* (line 154, meta['distance'], is 2 - 2 * similarity and is not kept apart)
Similarity(v, query) == Cosine(v, NormalizeL2(query))

\* lines 145-159: the texts and records returned for a label row, each record
\* a copy with the score of its label added
SearchResult(st, labels, query) ==
    LET kept == LabelsKept(st, labels)
    IN  [i \in 1..Len(kept) |->
            [text |-> st.documents[kept[i]],
             meta |-> st.metadata[kept[i]],
             similarity |-> Similarity(st.index.vecs[kept[i]].v, query)]]

\* a variant of AfterSearch: the scores are written into the stored records
AfterSearchInPlace(st, res) ==
    [st EXCEPT !.metadata =
        [i \in DOMAIN st.metadata |->
            IF \E k \in DOMAIN res : res[k].meta = st.metadata[i]
            THEN [doc_id |-> st.metadata[i].doc_id,
                  chunk_index |-> st.metadata[i].chunk_index,
                  document_id |-> st.metadata[i].document_id,
                  chunk |-> st.metadata[i].chunk,
                  similarity |-> (CHOOSE k \in DOMAIN res :
                                      res[k].meta = st.metadata[i])]
            ELSE st.metadata[i]]]

\* the instance after search returned res: line 153 copies the record before
\* lines 154-155 write the scores, and index.search does not change the index
AfterSearch(st, res) == st

\* every result search may return on instance st without raising
SearchResults(st, query, top_k) ==
    IF NothingToSearch(st) THEN {<<>>}
    ELSE IF ~QueryMatches(st.index, query) THEN {}
    ELSE {SearchResult(st, labels, query) :
            labels \in {r \in SearchLabels(st.index, query, top_k) : ~ResultRaises(st, r)}}

\* search raises on instance st for some label row the library may return
SearchRaises(st, query, top_k) ==
    IF NothingToSearch(st) THEN FALSE
    ELSE IF ~QueryMatches(st.index, query) THEN TRUE
    ELSE \E r \in SearchLabels(st.index, query, top_k) : ResultRaises(st, r)

(***************************************************************************)
(* State.                                                                  *)
(***************************************************************************)
\* the task whose instance the sequential specification drives
Main == CHOOSE p \in Procs : \A q \in Procs : p <= q

\* no handler is running
NoOp ==
    [name |-> "none", document_id |-> "", documents |-> <<>>, embeddings |-> <<>>,
     query |-> <<>>, top_k |-> 0]

\* what the last finished call was and how it ended
\* (n: chunks handed to add, slots removed by delete, slots dropped by clear,
\* top_k of search;
\* dim: length of the first embedding handed to add)
Outcome(name, document_id, n, dim, raised, res) ==
    [op |-> name, document_id |-> document_id, n |-> n, dim |-> dim,
     raised |-> raised, res |-> res]

\* the batches process_document may hand to add_documents for document d:
\* process_file numbers the chunks 0, 1, ...; embed_documents returns one
\* embedding per chunk
ChunksOf(d, n, first) ==
    [j \in 1..n |-> [document_id |-> d, chunk_index |-> j - 1, chunk |-> first + j - 1]]

EmbeddingsOf(vs, first) ==
    [j \in 1..Len(vs) |-> [v |-> vs[j], chunk |-> first + j - 1]]

VectorBatches == UNION {[1..n -> InputVectors] : n \in BatchSizes}

\* what extract_markdown_headers found in a chunk for the keys the store reads
\* (an absent key is the empty sequence): nothing
NoHeaders == [chunk_index |-> <<>>, document_id |-> <<>>]

\* an uploaded file: its extension, the number of chunks the splitter makes of
\* it, and what the front matter at its start defines
NoFile == [extension |-> "", n |-> 0, header_info |-> NoHeaders]

\* the tables before any upload: no row of documents was ever inserted (status
\* "none" for every id) and document_chunks is empty
NoRows ==
    [documents |-> [d \in DocIds |->
                      [status |-> "none", processed |-> FALSE, pending |-> FALSE,
                       file |-> NoFile]],
     chunks |-> {}]

Init ==
    /\ inst = [p \in Procs |-> InitializeNewIndex]
    /\ pc = [p \in Procs |-> "idle"]
    /\ op = [p \in Procs |-> NoOp]
    /\ disk = NoFiles
    /\ nextChunk = 1
    /\ last = Outcome("open", "", 0, 0, FALSE, <<>>)
    /\ txn = NoFiles
    /\ committed = {}
    /\ db = NoRows

(***************************************************************************)
(* The sequential specification: one instance, whole calls.                *)
(***************************************************************************)
\* CollegeVectorStore(college_id): the instance is dropped and the tenant opened
Open ==
    /\ inst' = [inst EXCEPT ![Main] = LoadOrInitialize(disk)]
    /\ last' = Outcome("open", "", 0, 0, FALSE, <<>>)
    /\ UNCHANGED <<pc, op, disk, nextChunk, txn, db, committed>>

\* add_documents(documents, embeddings), lines 67-111
AddDocuments(documents, embeddings) ==
    LET st == inst[Main]
        n == Len(documents)
    IN  IF NothingToAdd(documents, embeddings)
        THEN /\ last' = Outcome("add", "", n, 0, FALSE, <<>>)
             /\ UNCHANGED <<inst, disk, nextChunk, committed>>
        ELSE IF AddRaises(st, documents, embeddings)
        THEN /\ last' = Outcome("add", documents[1].document_id, n,
                                Len(embeddings[1].v), TRUE, <<>>)
             /\ UNCHANGED <<inst, disk, nextChunk, committed>>
        ELSE \E s \in SaveOutcomes(AddInMemory(st, documents, embeddings), disk) :
                /\ inst' = [inst EXCEPT ![Main] = AddInMemory(st, documents, embeddings)]
                /\ disk' = s.disk
                /\ nextChunk' = nextChunk + (IF Len(embeddings) > n THEN Len(embeddings) ELSE n)
                /\ committed' = IF s.raised THEN committed
                                 ELSE committed \cup {documents[j].chunk : j \in 1..n}
                /\ last' = Outcome("add", documents[1].document_id, n,
                                   Len(embeddings[1].v), s.raised, <<>>)

Add ==
    \E d \in DocIds, vs \in VectorBatches :
        /\ Len(inst[Main].metadata) + Len(vs) <= MaxSlots
        /\ nextChunk + Len(vs) - 1 <= MaxChunks
        /\ AddDocuments(ChunksOf(d, Len(vs), nextChunk), EmbeddingsOf(vs, nextChunk))
        /\ UNCHANGED <<pc, op, txn, db>>

\* delete_document(document_id), lines 161-208
DeleteDocument(document_id) ==
    LET st == inst[Main]
    IN  IF NothingToDelete(st, document_id)
        THEN /\ last' = Outcome("delete", document_id, 0, 0, FALSE, <<>>)
             /\ UNCHANGED <<inst, disk>>
        ELSE IF RebuildRaises(st, IndicesToKeep(st.metadata, document_id))
        THEN /\ last' = Outcome("delete", document_id, 0, 0, TRUE, <<>>)
             /\ UNCHANGED <<inst, disk>>
        ELSE \E s \in SaveOutcomes(DeleteInMemory(st, document_id), disk) :
                /\ inst' = [inst EXCEPT ![Main] = DeleteInMemory(st, document_id)]
                /\ disk' = s.disk
                /\ last' = Outcome("delete", document_id,
                                   Len(st.metadata) - Len(inst'[Main].metadata),
                                   0, s.raised, <<>>)

Delete ==
    \E d \in DocIds :
        /\ DeleteDocument(d)
        /\ UNCHANGED <<pc, op, nextChunk, txn, db, committed>>

\* a variant of ClearFiles: the files are left where they are
ClearFilesKept(dk) == dk

\* lines 215-220: each of the three files is removed if it exists
ClearFiles(dk) ==
    [index |-> AbsentIndexFile, metadata |-> AbsentListFile,
     documents |-> AbsentListFile]

\* clear(), lines 210-222: the instance is emptied and the three files removed
\* (last.n: the slots the instance held)
Clear ==
    /\ inst' = [inst EXCEPT ![Main] = InitializeNewIndex]
    /\ disk' = ClearFiles(disk)
    /\ last' = Outcome("clear", "", Len(inst[Main].metadata), 0, FALSE, <<>>)
    /\ UNCHANGED <<pc, op, nextChunk, txn, db, committed>>

\* search(query_embedding, top_k), lines 128-159
Search ==
    \E query \in Queries, top_k \in TopKs :
        /\ \/ \E res \in SearchResults(inst[Main], query, top_k) :
                /\ last' = Outcome("search", "", top_k, Len(query), FALSE, res)
                /\ inst' = [inst EXCEPT ![Main] = AfterSearch(@, res)]
           \/ /\ SearchRaises(inst[Main], query, top_k)
              /\ last' = Outcome("search", "", top_k, Len(query), TRUE, <<>>)
              /\ UNCHANGED inst
        /\ UNCHANGED <<pc, op, disk, nextChunk, txn, db, committed>>

Next == Open \/ Add \/ Delete \/ Clear \/ Search

Spec == Init /\ [][Next]_vars

(***************************************************************************)
(* The sequential specification with a caller of add_documents that may    *)
(* hand over another number of embeddings than of chunks.                  *)
(***************************************************************************)
\* add_documents(documents, embeddings) with len(documents) # len(embeddings),
\* neither empty
AddUnequal ==
    \E d \in DocIds, n \in BatchSizes, vs \in VectorBatches :
        /\ n > 0
        /\ Len(vs) > 0
        /\ n # Len(vs)
        /\ Len(inst[Main].metadata) + n <= MaxSlots
        /\ NTotal(inst[Main].index) + Len(vs) <= MaxSlots
        /\ nextChunk + n - 1 <= MaxChunks
        /\ nextChunk + Len(vs) - 1 <= MaxChunks
        /\ AddDocuments(ChunksOf(d, n, nextChunk), EmbeddingsOf(vs, nextChunk))
        /\ UNCHANGED <<pc, op, txn, db>>

NextLoose == Open \/ Add \/ AddUnequal \/ Delete \/ Clear \/ Search

SpecLoose == Init /\ [][NextLoose]_vars

(***************************************************************************)
(* The sequential specification on the embeddings of the worked example:   *)
(* document "A" has three chunks, document "B" two, each document is       *)
(* ingested as one batch and is in the store at most once.                 *)
(***************************************************************************)
ScenarioBatch(d) ==
    IF d = "A" THEN << <<1, 0>>, <<0, 1>>, <<1, 1>> >>
               ELSE << <<0, 1>>, <<-1, 0>> >>

\* chunks the example inserts in all
ScenarioChunks == Len(ScenarioBatch("A")) + Len(ScenarioBatch("B"))

ScenarioQueries == {<<1, 0>>, <<0, 1>>}

ScenarioTopKs == {1, 2}

\* process_document for document d: add_documents of its batch
ScenarioAdd ==
    \E d \in DocIds :
        /\ \A i \in DOMAIN inst[Main].metadata : inst[Main].metadata[i].document_id # d
        /\ nextChunk + Len(ScenarioBatch(d)) - 1 <= ScenarioChunks
        /\ AddDocuments(ChunksOf(d, Len(ScenarioBatch(d)), nextChunk),
                        EmbeddingsOf(ScenarioBatch(d), nextChunk))
        /\ UNCHANGED <<pc, op, txn, db>>

\* search(query_embedding, top_k), lines 128-159
ScenarioSearch ==
    \E query \in ScenarioQueries, top_k \in ScenarioTopKs :
        /\ \/ \E res \in SearchResults(inst[Main], query, top_k) :
                last' = Outcome("search", "", top_k, Len(query), FALSE, res)
           \/ /\ SearchRaises(inst[Main], query, top_k)
              /\ last' = Outcome("search", "", top_k, Len(query), TRUE, <<>>)
        /\ UNCHANGED <<inst, pc, op, disk, nextChunk, txn, db, committed>>

NextScenario == Open \/ ScenarioAdd \/ Delete \/ Clear \/ ScenarioSearch

SpecScenario == Init /\ [][NextScenario]_vars

(***************************************************************************)
(* Several tenants.  CollegeVectorStore(college_id) keeps its three        *)
(* artifacts under BASE_DATA_PATH/college_<college_id:03d>/vectorstore.    *)
(* In this specification inst[c] is the instance opened for college c,     *)
(* disk[dir] the artifacts under directory dir, committed[c] the chunks    *)
(* handed to add_documents of college c, and last names the college the    *)
(* last call was made for.                                                 *)
(***************************************************************************)
\* College.id of the tenants
CollegeIds == {1, 12}

\* inputs of the calls on the tenants' stores
TenantBatchSizes == {1}

TenantVectors == {<<2>>, <<1, 1>>}

TenantBatches == UNION {[1..n -> TenantVectors] : n \in TenantBatchSizes}

TenantQueries == {<<1, 0>>}

TenantTopKs == {TOP_K_RETRIEVAL}

RECURSIVE Digits(_)
\* the decimal digits of n >= 0, most significant first
Digits(n) == IF n < 10 THEN <<n>> ELSE Append(Digits(n \div 10), n % 10)

\* format(n, "03d"): the digits, padded with zeros on the left to three
Format03d(n) ==
    LET ds == Digits(n)
    IN  [i \in 1..(3 - Len(ds)) |-> 0] \o ds

\* a variant of CollegeDir: the college id is left out of the path
CollegeDirShared(college_id) == [prefix |-> "college_", digits |-> <<>>]

\* line 22: the directory name f"college_{college_id:03d}"
CollegeDir(college_id) == [prefix |-> "college_", digits |-> Format03d(college_id)]

TenantOutcome(college_id, outcome) ==
    [college_id |-> college_id, op |-> outcome.op,
     document_id |-> outcome.document_id, n |-> outcome.n, dim |-> outcome.dim,
     raised |-> outcome.raised, res |-> outcome.res]

InitTenants ==
    /\ inst = [c \in CollegeIds |-> InitializeNewIndex]
    /\ pc = [p \in Procs |-> "idle"]
    /\ op = [p \in Procs |-> NoOp]
    /\ disk = [dir \in {CollegeDir(c) : c \in CollegeIds} |-> NoFiles]
    /\ nextChunk = 1
    /\ last = TenantOutcome(0, Outcome("open", "", 0, 0, FALSE, <<>>))
    /\ txn = NoFiles
    /\ committed = [c \in CollegeIds |-> {}]
    /\ db = NoRows

\* CollegeVectorStore(c), lines 20-35
TenantOpen(c) ==
    /\ inst' = [inst EXCEPT ![c] = LoadOrInitialize(disk[CollegeDir(c)])]
    /\ last' = TenantOutcome(c, Outcome("open", "", 0, 0, FALSE, <<>>))
    /\ UNCHANGED <<pc, op, disk, nextChunk, txn, db, committed>>

\* add_documents on the instance of college c, lines 67-111
TenantAdd(c) ==
    \E d \in DocIds, vs \in TenantBatches :
        LET st == inst[c]
            n == Len(vs)
            documents == ChunksOf(d, n, nextChunk)
            embeddings == EmbeddingsOf(vs, nextChunk)
        IN  /\ Len(st.metadata) + n <= MaxSlots
            /\ nextChunk + n - 1 <= MaxChunks
            /\ IF NothingToAdd(documents, embeddings)
               THEN /\ last' = TenantOutcome(c, Outcome("add", "", n, 0, FALSE, <<>>))
                    /\ UNCHANGED <<inst, disk, nextChunk, committed>>
               ELSE IF AddRaises(st, documents, embeddings)
               THEN /\ last' = TenantOutcome(c, Outcome("add", d, n, Len(vs[1]), TRUE, <<>>))
                    /\ UNCHANGED <<inst, disk, nextChunk, committed>>
               ELSE \E s \in SaveOutcomes(AddInMemory(st, documents, embeddings),
                                          disk[CollegeDir(c)]) :
                       /\ inst' = [inst EXCEPT ![c] = AddInMemory(st, documents, embeddings)]
                       /\ disk' = [disk EXCEPT ![CollegeDir(c)] = s.disk]
                       /\ nextChunk' = nextChunk + n
                       /\ committed' = [committed EXCEPT ![c] =
                                           @ \cup {documents[j].chunk : j \in 1..n}]
                       /\ last' = TenantOutcome(c,
                                       Outcome("add", d, n, Len(vs[1]), s.raised, <<>>))
            /\ UNCHANGED <<pc, op, txn, db>>

\* delete_document on the instance of college c, lines 161-208
TenantDelete(c) ==
    \E d \in DocIds :
        LET st == inst[c]
        IN  /\ IF NothingToDelete(st, d)
               THEN /\ last' = TenantOutcome(c, Outcome("delete", d, 0, 0, FALSE, <<>>))
                    /\ UNCHANGED <<inst, disk>>
               ELSE IF RebuildRaises(st, IndicesToKeep(st.metadata, d))
               THEN /\ last' = TenantOutcome(c, Outcome("delete", d, 0, 0, TRUE, <<>>))
                    /\ UNCHANGED <<inst, disk>>
               ELSE \E s \in SaveOutcomes(DeleteInMemory(st, d), disk[CollegeDir(c)]) :
                       /\ inst' = [inst EXCEPT ![c] = DeleteInMemory(st, d)]
                       /\ disk' = [disk EXCEPT ![CollegeDir(c)] = s.disk]
                       /\ last' = TenantOutcome(c,
                                       Outcome("delete", d,
                                               Len(st.metadata) - Len(inst'[c].metadata),
                                               0, s.raised, <<>>))
            /\ UNCHANGED <<pc, op, nextChunk, txn, db, committed>>

\* clear on the instance of college c, lines 210-222
TenantClear(c) ==
    /\ inst' = [inst EXCEPT ![c] = InitializeNewIndex]
    /\ disk' = [disk EXCEPT ![CollegeDir(c)] = ClearFiles(@)]
    /\ last' = TenantOutcome(c, Outcome("clear", "", Len(inst[c].metadata), 0, FALSE, <<>>))
    /\ UNCHANGED <<pc, op, nextChunk, txn, db, committed>>

\* search on the instance of college c, lines 128-159
TenantSearch(c) ==
    \E query \in TenantQueries, top_k \in TenantTopKs :
        /\ \/ \E res \in SearchResults(inst[c], query, top_k) :
                last' = TenantOutcome(c, Outcome("search", "", top_k, Len(query), FALSE, res))
           \/ /\ SearchRaises(inst[c], query, top_k)
              /\ last' = TenantOutcome(c,
                              Outcome("search", "", top_k, Len(query), TRUE, <<>>))
        /\ UNCHANGED <<inst, pc, op, disk, nextChunk, txn, db, committed>>

NextTenants ==
    \E c \in CollegeIds :
        \/ TenantOpen(c)
        \/ TenantAdd(c)
        \/ TenantDelete(c)
        \/ TenantClear(c)
        \/ TenantSearch(c)

SpecTenants == InitTenants /\ [][NextTenants]_vars

(***************************************************************************)
(* The services of one college, whole handlers: upload_document,           *)
(* process_document (the background task of an upload), DocumentService.   *)
(* delete_document and process_query.  Each handler opens the tenant       *)
(* afresh with get_or_create, so the store it works on is the one the      *)
(* artifacts give; the college row exists.  db.documents[d].status is      *)
(* "none" (id d not yet given out), "row" or "deleted"; pending says the    *)
(* background task of the upload has not run yet; db.chunks is the set of  *)
(* committed rows of document_chunks.                                      *)
(***************************************************************************)
\* a variant of Supported: get_loader has a loader for every extension
SupportedAny(extension) == TRUE

\* get_loader, lines 33-48: the extensions that have a loader
Supported(extension) ==
    extension \in {".pdf", ".docx", ".doc", ".txt", ".csv", ".html", ".htm", ".md"}

\* the files uploaded: front matter is looked for in markdown only; a value it
\* gives is a string, which 7 stands for
Files ==
    {[extension |-> ".txt", n |-> 0, header_info |-> NoHeaders],
     [extension |-> ".txt", n |-> 1, header_info |-> NoHeaders],
     [extension |-> ".txt", n |-> 2, header_info |-> NoHeaders],
     [extension |-> ".xyz", n |-> 1, header_info |-> NoHeaders],
     [extension |-> ".md", n |-> 2, header_info |-> NoHeaders],
     [extension |-> ".md", n |-> 2,
      header_info |-> [chunk_index |-> <<7>>, document_id |-> <<>>]],
     [extension |-> ".md", n |-> 2,
      header_info |-> [chunk_index |-> <<>>, document_id |-> <<"B">>]]}

\* the embedding the provider returns for every chunk of one call
ServiceVectors == {<<2>>, <<1, 1>>}

ServiceQueries == {<<3>>, <<1, 0>>}

\* chunking.py line 81: chunk.metadata.update(header_info), after line 77 has
\* set chunk_index
MergeHeaders(chunk, header_info) ==
    [chunk EXCEPT
        !.chunk_index = IF header_info.chunk_index # <<>>
                        THEN header_info.chunk_index[1] ELSE @,
        !.document_id = IF header_info.document_id # <<>>
                        THEN header_info.document_id[1] ELSE @]

\* process_file, lines 50-83, for a file with a loader: the chunks in source
\* order, chunk_index set to the position, and for markdown the headers of a
\* chunk merged into its metadata (the front matter is in the first chunk)
ProcessFile(d, file, first) ==
    [j \in 1..file.n |->
        IF file.extension = ".md" /\ j = 1
        THEN MergeHeaders(ChunksOf(d, file.n, first)[j], file.header_info)
        ELSE ChunksOf(d, file.n, first)[j]]

\* document_service.py lines 81-97: the rows of document_chunks added to the
\* session, chunk_index from enumerate
StagedRows(d, chunks) ==
    {[document_id |-> d, chunk_index |-> i - 1] : i \in DOMAIN chunks}

\* what a handler did (found: the chunks search returned, -1 if search was not
\* reached; staged: the rows in the session when process_document failed)
ServiceOutcome(name, document_id, raised, failed, error, staged, found, response, sources) ==
    [op |-> name, document_id |-> document_id, raised |-> raised,
     failed |-> failed, error |-> error, staged |-> staged, found |-> found,
     response |-> response, sources |-> sources]

NoError == [kind |-> "", extension |-> ""]

\* upload_document, lines 26-59: the file is saved, the row inserted with
\* processed False and the background task queued
UploadDocument ==
    \E d \in DocIds, file \in Files :
        /\ db.documents[d].status = "none"
        /\ db' = [db EXCEPT !.documents[d] =
                     [status |-> "row", processed |-> FALSE, pending |-> TRUE,
                      file |-> file]]
        /\ last' = ServiceOutcome("upload", d, FALSE, FALSE, NoError, 0, -1, "", <<>>)
        /\ UNCHANGED <<inst, pc, op, disk, nextChunk, txn, committed>>

\* lines 115-122: the except block sets processed False and commits the
\* session, the rows staged before the failure with it
FailIngest(d, staged) ==
    [db EXCEPT !.documents[d].processed = FALSE,
               !.documents[d].pending = FALSE,
               !.chunks = @ \cup staged]

\* lines 106-111: processed True, commit
SucceedIngest(d, staged) ==
    [db EXCEPT !.documents[d].processed = TRUE,
               !.documents[d].pending = FALSE,
               !.chunks = @ \cup staged]

\* process_document, lines 61-122
ProcessDocument ==
    \E d \in DocIds, ok \in BOOLEAN, v \in ServiceVectors :
        LET row == db.documents[d]
            chunks == ProcessFile(d, row.file, nextChunk)
            staged == StagedRows(d, chunks)
            embeddings == EmbeddingsOf([j \in 1..Len(chunks) |-> v], nextChunk)
            st == LoadOrInitialize(disk)
            Failed(error, rows) ==
                /\ db' = FailIngest(d, rows)
                /\ last' = ServiceOutcome("process", d, FALSE, TRUE, error,
                                          Cardinality(rows), -1, "", <<>>)
        IN  /\ row.pending
            /\ Len(st.metadata) + row.file.n <= MaxSlots
            /\ nextChunk + row.file.n - 1 <= MaxChunks
            /\ IF row.status # "row"
               THEN /\ db' = [db EXCEPT !.documents[d].pending = FALSE]
                    /\ last' = ServiceOutcome("process", d, FALSE, FALSE, NoError,
                                              0, -1, "", <<>>)
                    /\ UNCHANGED <<disk, nextChunk, committed>>
               ELSE IF ~Supported(row.file.extension)
               THEN /\ Failed([kind |-> "Unsupported file type",
                               extension |-> row.file.extension], {})
                    /\ UNCHANGED <<disk, nextChunk, committed>>
               ELSE IF ~ok
               THEN /\ Failed([kind |-> "embed_documents", extension |-> ""], staged)
                    /\ UNCHANGED <<disk, nextChunk, committed>>
               ELSE IF NothingToAdd(chunks, embeddings)
               THEN /\ db' = SucceedIngest(d, staged)
                    /\ last' = ServiceOutcome("process", d, FALSE, FALSE, NoError,
                                              0, -1, "", <<>>)
                    /\ UNCHANGED <<disk, nextChunk, committed>>
               ELSE IF AddRaises(st, chunks, embeddings)
               THEN /\ Failed([kind |-> "add_documents", extension |-> ""], staged)
                    /\ UNCHANGED <<disk, nextChunk, committed>>
               ELSE \E s \in SaveOutcomes(AddInMemory(st, chunks, embeddings), disk) :
                       /\ disk' = s.disk
                       /\ nextChunk' = nextChunk + Len(chunks)
                       /\ IF s.raised
                          THEN /\ Failed([kind |-> "_save_index", extension |-> ""], staged)
                               /\ UNCHANGED committed
                          ELSE /\ db' = SucceedIngest(d, staged)
                               /\ committed' = committed \cup
                                       {chunks[j].chunk : j \in DOMAIN chunks}
                               /\ last' = ServiceOutcome("process", d, FALSE, FALSE,
                                                         NoError, 0, -1, "", <<>>)
            /\ UNCHANGED <<inst, pc, op, txn>>

\* DocumentService.delete_document, lines 191-218: the chunk rows and the row
\* are deleted; what the vector store raises is logged and dropped
DeleteDocumentService ==
    \E d \in DocIds :
        LET st == LoadOrInitialize(disk)
            Returned(ok, store_raised) ==
                last' = ServiceOutcome("delete", d, FALSE, store_raised, NoError,
                                       0, -1, IF ok THEN "True" ELSE "False", <<>>)
            Deleted ==
                db' = [db EXCEPT !.documents[d].status = "deleted",
                                 !.chunks = {r \in @ : r.document_id # d}]
        IN  /\ IF db.documents[d].status # "row"
               THEN /\ Returned(FALSE, FALSE)
                    /\ UNCHANGED <<disk, db>>
               ELSE IF NothingToDelete(st, d)
               THEN /\ Returned(TRUE, FALSE)
                    /\ Deleted
                    /\ UNCHANGED disk
               ELSE IF RebuildRaises(st, IndicesToKeep(st.metadata, d))
               THEN /\ Returned(TRUE, TRUE)
                    /\ Deleted
                    /\ UNCHANGED disk
               ELSE \E s \in SaveOutcomes(DeleteInMemory(st, d), disk) :
                       /\ disk' = s.disk
                       /\ Returned(TRUE, s.raised)
                       /\ Deleted
            /\ UNCHANGED <<inst, pc, op, nextChunk, txn, committed>>

\* a variant of NoDocuments: the test of line 94 never holds
NoDocumentsUntested(res) == FALSE

\* chat_service.py line 94: "if not documents"
NoDocuments(res) == res = <<>>

\* process_query, lines 68-152 (ok: embed_query returns; otherwise it raises)
ProcessQuery ==
    \E ok \in BOOLEAN, query \in ServiceQueries :
        LET st == LoadOrInitialize(disk)
            Raised ==
                last' = ServiceOutcome("query", "", TRUE, FALSE,
                                       [kind |-> IF ok THEN "search" ELSE "embed_query",
                                        extension |-> ""],
                                       0, -1, "", <<>>)
        IN  /\ IF ~ok
               THEN Raised
               ELSE \/ /\ SearchRaises(st, query, TOP_K_RETRIEVAL)
                       /\ Raised
                    \/ \E res \in SearchResults(st, query, TOP_K_RETRIEVAL) :
                          last' = ServiceOutcome("query", "", FALSE, FALSE, NoError, 0,
                                      Len(res),
                                      IF NoDocuments(res) THEN "no_information"
                                                          ELSE "answer",
                                      [k \in DOMAIN res |-> res[k].similarity])
            /\ UNCHANGED <<inst, pc, op, disk, nextChunk, txn, committed, db>>

NextService == UploadDocument \/ ProcessDocument \/ DeleteDocumentService \/ ProcessQuery

SpecService == Init /\ [][NextService]_vars

(***************************************************************************)
(* The handlers step by step.  process_document, process_query and         *)
(* DocumentService.delete_document each open the tenant afresh             *)
(* (get_or_create builds a new instance and loads the three artifacts one  *)
(* after the other) and then call the instance; _save_index writes the     *)
(* three artifacts one after the other.  Between two steps of a task       *)
(* another task may run, or the process may die.                           *)
(*                                                                         *)
(* pc[p]: "idle", "exists" (line 39), "read_index" (42), "read_metadata"   *)
(* (46), "read_documents" (50), "call" (the instance is open, the call on  *)
(* it is next), "write_index" (116), "write_metadata" (119),               *)
(* "write_documents" (123), "crashed".                                     *)
(***************************************************************************)
\* embeddings and batch lengths of the step-by-step specifications
StepVectors == {<<1, 1>>}

\* query embeddings of the step-by-step specifications
StepQueries == {<<1, 0>>}

StepBatches == UNION {[1..n -> StepVectors] : n \in {1, 2}}

Goto(p, label) == pc' = [pc EXCEPT ![p] = label]

\* the handler of task p ends: its outcome is recorded, its instance (a local
\* of the handler) is dropped and the task is idle
Finish(p, outcome) ==
    /\ pc' = [pc EXCEPT ![p] = "idle"]
    /\ op' = [op EXCEPT ![p] = NoOp]
    /\ inst' = [inst EXCEPT ![p] = InitializeNewIndex]
    /\ last' = outcome
    /\ txn' = NoFiles
    /\ UNCHANGED db

\* process_document, lines 78-103: the chunks are made and embedded, then the
\* tenant is opened
BeginIngest(p) ==
    /\ pc[p] = "idle"
    /\ \E d \in DocIds, vs \in StepBatches :
          /\ nextChunk + Len(vs) - 1 <= MaxChunks
          /\ op' = [op EXCEPT ![p] =
                       [NoOp EXCEPT !.name = "ingest", !.document_id = d,
                                    !.documents = ChunksOf(d, Len(vs), nextChunk),
                                    !.embeddings = EmbeddingsOf(vs, nextChunk)]]
          /\ nextChunk' = nextChunk + Len(vs)
    /\ Goto(p, "exists")
    /\ UNCHANGED <<inst, disk, last, txn, db, committed>>

\* DocumentService.delete_document, lines 201-203
BeginDelete(p) ==
    /\ pc[p] = "idle"
    /\ \E d \in DocIds :
          op' = [op EXCEPT ![p] = [NoOp EXCEPT !.name = "delete", !.document_id = d]]
    /\ Goto(p, "exists")
    /\ UNCHANGED <<inst, disk, nextChunk, last, txn, db, committed>>

\* process_query, lines 87-90: the query is embedded, then the tenant is opened
BeginQuery(p) ==
    /\ pc[p] = "idle"
    /\ \E query \in StepQueries :
          op' = [op EXCEPT ![p] =
                    [NoOp EXCEPT !.name = "query", !.query = query,
                                 !.top_k = TOP_K_RETRIEVAL]]
    /\ Goto(p, "exists")
    /\ UNCHANGED <<inst, disk, nextChunk, last, txn, db, committed>>

\* __init__ lines 32-34 and the existence test of line 39
LoadExists(p) ==
    /\ pc[p] = "exists"
    /\ inst' = [inst EXCEPT ![p] = InitializeNewIndex]
    /\ IF AllExist(disk) THEN Goto(p, "read_index") ELSE Goto(p, "call")
    /\ UNCHANGED <<op, disk, nextChunk, last, txn, db, committed>>

\* line 42; on an exception lines 53-55 start a new index
LoadIndex(p) ==
    /\ pc[p] = "read_index"
    /\ IF Readable(disk.index)
       THEN /\ inst' = [inst EXCEPT ![p].index = disk.index.data]
            /\ Goto(p, "read_metadata")
       ELSE /\ inst' = [inst EXCEPT ![p] = InitializeNewIndex]
            /\ Goto(p, "call")
    /\ UNCHANGED <<op, disk, nextChunk, last, txn, db, committed>>

\* lines 45-46
LoadMetadata(p) ==
    /\ pc[p] = "read_metadata"
    /\ IF Readable(disk.metadata)
       THEN /\ inst' = [inst EXCEPT ![p].metadata = disk.metadata.data]
            /\ Goto(p, "read_documents")
       ELSE /\ inst' = [inst EXCEPT ![p] = InitializeNewIndex]
            /\ Goto(p, "call")
    /\ UNCHANGED <<op, disk, nextChunk, last, txn, db, committed>>

\* lines 49-52: the documents are read, then the log line reads index.ntotal
LoadDocuments(p) ==
    /\ pc[p] = "read_documents"
    /\ IF Readable(disk.documents) /\ inst[p].index.present
       THEN inst' = [inst EXCEPT ![p].documents = disk.documents.data]
       ELSE inst' = [inst EXCEPT ![p] = InitializeNewIndex]
    /\ Goto(p, "call")
    /\ UNCHANGED <<op, disk, nextChunk, last, txn, db, committed>>

\* add_documents up to the call of _save_index (lines 69-107)
AddStep(p) ==
    /\ pc[p] = "call"
    /\ op[p].name = "ingest"
    /\ LET documents == op[p].documents
           embeddings == op[p].embeddings
       IN  IF AddRaises(inst[p], documents, embeddings)
           THEN /\ Finish(p, Outcome("add", op[p].document_id, Len(documents),
                                     Len(embeddings[1].v), TRUE, <<>>))
           ELSE /\ inst' = [inst EXCEPT ![p] = AddInMemory(inst[p], documents, embeddings)]
                /\ Goto(p, "write_index")
                /\ txn' = disk
                /\ UNCHANGED db
                /\ UNCHANGED <<op, last>>
    /\ UNCHANGED <<disk, nextChunk, committed>>

\* delete_document up to the call of _save_index (lines 165-204)
DeleteStep(p) ==
    /\ pc[p] = "call"
    /\ op[p].name = "delete"
    /\ LET d == op[p].document_id
       IN  IF NothingToDelete(inst[p], d)
           THEN /\ Finish(p, Outcome("delete", d, 0, 0, FALSE, <<>>))
           ELSE IF RebuildRaises(inst[p], IndicesToKeep(inst[p].metadata, d))
           THEN /\ Finish(p, Outcome("delete", d, 0, 0, TRUE, <<>>))
           ELSE /\ inst' = [inst EXCEPT ![p] = DeleteInMemory(inst[p], d)]
                /\ Goto(p, "write_index")
                /\ txn' = disk
                /\ UNCHANGED db
                /\ UNCHANGED <<op, last>>
    /\ UNCHANGED <<disk, nextChunk, committed>>

\* search on the instance just opened (process_query line 91)
SearchStep(p) ==
    /\ pc[p] = "call"
    /\ op[p].name = "query"
    /\ \/ \E res \in SearchResults(inst[p], op[p].query, op[p].top_k) :
             Finish(p, Outcome("search", "", op[p].top_k, Len(op[p].query), FALSE, res))
       \/ /\ SearchRaises(inst[p], op[p].query, op[p].top_k)
          /\ Finish(p, Outcome("search", "", op[p].top_k, Len(op[p].query), TRUE, <<>>))
    /\ UNCHANGED <<disk, nextChunk, committed>>

\* what the finished call of task p is recorded as
CallOutcome(p, raised) ==
    IF op[p].name = "ingest"
    THEN Outcome("add", op[p].document_id, Len(op[p].documents),
                 Len(op[p].embeddings[1].v), raised, <<>>)
    ELSE Outcome("delete", op[p].document_id, 0, 0, raised, <<>>)

\* line 116
WriteIndexStep(p) ==
    /\ pc[p] = "write_index"
    /\ \E w \in WriteIndexOutcomes(inst[p].index, disk.index) :
          /\ disk' = [disk EXCEPT !.index = w.file]
          /\ IF w.raised
             THEN Finish(p, CallOutcome(p, TRUE))
             ELSE Goto(p, "write_metadata") /\ UNCHANGED <<inst, op, last, txn, db>>
    /\ UNCHANGED <<nextChunk, committed>>

\* lines 119-120
WriteMetadataStep(p) ==
    /\ pc[p] = "write_metadata"
    /\ disk' = WriteMetadata(inst[p], disk)
    /\ Goto(p, "write_documents")
    /\ UNCHANGED <<inst, op, nextChunk, last, txn, db, committed>>

\* lines 123-126, and the return of add_documents or delete_document
WriteDocumentsStep(p) ==
    /\ pc[p] = "write_documents"
    /\ disk' = WriteDocuments(inst[p], disk)
    /\ Finish(p, CallOutcome(p, SaveLogRaises(inst[p])))
    /\ committed' =
          IF op[p].name = "ingest" /\ ~SaveLogRaises(inst[p])
          THEN committed \cup {op[p].documents[j].chunk : j \in DOMAIN op[p].documents}
          ELSE committed
    /\ UNCHANGED nextChunk

\* the artifact the task is about to write, or is writing
FileAt(label) ==
    CASE label = "write_index" -> "index"
      [] label = "write_metadata" -> "metadata"
      [] label = "write_documents" -> "documents"

\* the artifacts when the process dies at `label`: before the write began, or
\* with the file opened for writing (truncated) and not yet complete
DiskAfterCrash(dk, label, torn) ==
    IF ~torn THEN dk
    ELSE IF FileAt(label) = "index" THEN [dk EXCEPT !.index = CorruptIndexFile]
    ELSE IF FileAt(label) = "metadata" THEN [dk EXCEPT !.metadata = CorruptListFile]
    ELSE [dk EXCEPT !.documents = CorruptListFile]

\* the process dies inside _save_index
Crash(p) ==
    /\ pc[p] \in {"write_index", "write_metadata", "write_documents"}
    /\ \E torn \in BOOLEAN : disk' = DiskAfterCrash(disk, pc[p], torn)
    /\ Goto(p, "crashed")
    /\ UNCHANGED <<inst, op, nextChunk, last, txn, db, committed>>

\* the service is started again
Restart(p) ==
    /\ pc[p] = "crashed"
    /\ pc' = [pc EXCEPT ![p] = "idle"]
    /\ op' = [op EXCEPT ![p] = NoOp]
    /\ inst' = [inst EXCEPT ![p] = InitializeNewIndex]
    /\ txn' = NoFiles
    /\ UNCHANGED db
    /\ UNCHANGED <<disk, nextChunk, last, committed>>

\* one task; the process may die while it saves
NextCrash ==
    \/ BeginIngest(Main)
    \/ BeginDelete(Main)
    \/ BeginQuery(Main)
    \/ LoadExists(Main)
    \/ LoadIndex(Main)
    \/ LoadMetadata(Main)
    \/ LoadDocuments(Main)
    \/ AddStep(Main)
    \/ DeleteStep(Main)
    \/ SearchStep(Main)
    \/ WriteIndexStep(Main)
    \/ WriteMetadataStep(Main)
    \/ WriteDocumentsStep(Main)
    \/ Crash(Main)
    \/ Restart(Main)

SpecCrash == Init /\ [][NextCrash]_vars

\* two tasks of one process (the background ingestion tasks of
\* upload_document and the chat requests), no crash
NextConc ==
    \E p \in Procs :
        \/ BeginIngest(p)
        \/ BeginQuery(p)
        \/ LoadExists(p)
        \/ LoadIndex(p)
        \/ LoadMetadata(p)
        \/ LoadDocuments(p)
        \/ AddStep(p)
        \/ SearchStep(p)
        \/ WriteIndexStep(p)
        \/ WriteMetadataStep(p)
        \/ WriteDocumentsStep(p)

SpecConc == Init /\ [][NextConc]_vars

(***************************************************************************)
(* Properties of the sequential specification.                             *)
(***************************************************************************)
\* index, records and texts of instance st have one length, and slot by slot
\* they were made from the same inserted chunk
Aligned(st) ==
    /\ NTotal(st.index) = Len(st.metadata)
    /\ Len(st.documents) = Len(st.metadata)
    /\ \A i \in DOMAIN st.metadata :
          /\ st.index.vecs[i].chunk = st.metadata[i].chunk
          /\ st.documents[i] = st.metadata[i].chunk

\* the slots of metadata that belong to document_id
SlotsOf(metadata, document_id) ==
    {i \in DOMAIN metadata : metadata[i].document_id = document_id}

\* no result search may return on st is a chunk of document_id
NoResultOf(st, document_id) ==
    \A query \in Queries, top_k \in TopKs :
        \A res \in SearchResults(st, query, top_k) :
            \A i \in DOMAIN res : res[i].meta.document_id # document_id

\* C1: in every state reached by open, add (one embedding per chunk), delete
\* and clear on one instance, the index, the records and the texts have the
\* same number of slots and slot i of each belongs to the same inserted chunk.
C1_ParallelSlots == Aligned(inst[Main])

\* a delete that removed some slots and kept others has run
C1_Witness ==
    /\ last.op = "delete"
    /\ last.n > 0
    /\ Len(inst[Main].metadata) > 0
    /\ ~last.raised

\* C5 (as claimed): after delete_document(d), also when d owns every slot, the
\* call has returned, no search result is a chunk of d, and the number of slots
\* is the prior number less the slots that belonged to d.
C5_DeletionComplete ==
    [][last'.op = "delete" =>
          /\ ~last'.raised
          /\ NoResultOf(inst'[Main], last'.document_id)
          /\ Len(inst'[Main].metadata) =
                Len(inst[Main].metadata)
                    - Cardinality(SlotsOf(inst[Main].metadata, last'.document_id))]_vars

\* C6 (as claimed): a delete that removes every slot completes without error
\* and leaves the empty instance with no fixed dimension, on which search
\* returns nothing.
C6_DeleteAllCompletes ==
    (last.op = "delete" /\ last.n > 0 /\ Len(inst[Main].metadata) = 0) =>
        /\ ~last.raised
        /\ inst[Main] = InitializeNewIndex
        /\ \A query \in Queries, top_k \in TopKs :
              SearchResults(inst[Main], query, top_k) = {<<>>}

\* C7 (as claimed): an add or delete that changed the instance has returned
\* with the artifacts updated: opening the tenant afresh gives the instance.
C7_DurableAfterMutation ==
    [][(last'.op \in {"add", "delete"} /\ inst'[Main] # inst[Main]) =>
          /\ ~last'.raised
          /\ LoadOrInitialize(disk') = inst'[Main]]_vars

\* C8: an add into an instance with no index fixes the dimension to the length
\* of its first embedding; an add whose embeddings have another length than the
\* fixed dimension raises and leaves the instance and the artifacts as they were.
C8_DimensionLock ==
    [][last'.op = "add" /\ last'.n > 0 =>
          /\ (~inst[Main].index.present /\ ~last'.raised) =>
                (inst'[Main].index.present /\ inst'[Main].index.d = last'.dim)
          /\ (inst[Main].index.present /\ inst[Main].index.d # last'.dim) =>
                (last'.raised /\ inst' = inst /\ disk' = disk)]_vars

\* an add of another dimension than the fixed one was refused
C8_Witness ==
    /\ last.op = "add"
    /\ last.raised
    /\ inst[Main].index.present
    /\ NTotal(inst[Main].index) > 0
    /\ last.dim # inst[Main].index.d

\* C9: after an add that stored its batch, opening the tenant afresh gives the
\* vectors, records and texts the instance holds, in the same order.
C9_RoundTrip ==
    (last.op = "add" /\ last.n > 0 /\ ~last.raised) =>
        LoadOrInitialize(disk) = inst[Main]

\* two batches were added and the instance holds three slots
C9_Witness ==
    /\ last.op = "add"
    /\ ~last.raised
    /\ last.n = 1
    /\ Len(inst[Main].metadata) = 3
    /\ LoadOrInitialize(disk) = inst[Main]

(***************************************************************************)
(* Properties of the step-by-step specifications.                          *)
(***************************************************************************)
\* the serial numbers of the chunks an artifact holds
ChunksInIndexFile(file) == {file.data.vecs[i].chunk : i \in DOMAIN file.data.vecs}

ChunksInMetadataFile(file) == {file.data[i].chunk : i \in DOMAIN file.data}

ChunksInDocumentsFile(file) == {file.data[i] : i \in DOMAIN file.data}

\* C2 (as claimed): when the process has died inside _save_index, the three
\* artifacts are all as they were when the save began or all as the save would
\* have left them.
C2_SaveAllOrNothing ==
    pc[Main] = "crashed" => (disk = txn \/ disk = Triple(inst[Main]))

\* C3 (as claimed): when no ingestion is under way, the artifacts hold the
\* chunks of every batch whose add_documents returned, and the three
\* artifacts have the same number of slots.
C3_NoBatchLost ==
    (\A p \in Procs : pc[p] = "idle") =>
        /\ committed \subseteq ChunksInIndexFile(disk.index)
        /\ committed \subseteq ChunksInMetadataFile(disk.metadata)
        /\ committed \subseteq ChunksInDocumentsFile(disk.documents)
        /\ NTotal(disk.index.data) = Len(disk.metadata.data)
        /\ Len(disk.documents.data) = Len(disk.metadata.data)

\* C4 (as claimed): the instance a query has opened, and is about to search,
\* holds an index, records and texts that belong together slot by slot.
C4_QuerySnapshot ==
    \A p \in Procs : (pc[p] = "call" /\ op[p].name = "query") => Aligned(inst[p])

\* C10 (as claimed): whatever an interrupted save left behind, the instance
\* an open yields is empty or holds an index, records and texts that belong
\* together.
C10_OpenWholeTriple ==
    pc[Main] = "call" => (inst[Main] = InitializeNewIndex \/ Aligned(inst[Main]))

(***************************************************************************)
(* Further properties of the sequential specification.                     *)
(***************************************************************************)
\* C11: after clear has returned, from whatever state, the instance holds no
\* vector, no record, no text and no index (so no fixed dimension), and
\* opening the tenant afresh gives the empty instance.
C11_ClearDiscardsAll ==
    last.op = "clear" =>
        /\ inst[Main] = InitializeNewIndex
        /\ LoadOrInitialize(disk) = InitializeNewIndex

\* a store of several slots, saved on disk, was cleared
C11_Witness ==
    /\ last.op = "clear"
    /\ last.n > 1
    /\ disk = NoFiles

\* C12: delete_document(d) on an instance none of whose records has
\* document_id d (the empty instance included) returns without raising and
\* leaves the instance and the three artifacts as they were.
C12_DeleteAbsentNoOp ==
    [][(last'.op = "delete" /\ SlotsOf(inst[Main].metadata, last'.document_id) = {}) =>
          /\ ~last'.raised
          /\ inst' = inst
          /\ disk' = disk]_vars

\* a delete of a document without slots ran on an instance that holds slots
C12_Witness ==
    /\ last.op = "delete"
    /\ ~last.raised
    /\ Len(inst[Main].metadata) > 0
    /\ SlotsOf(inst[Main].metadata, last.document_id) = {}

\* C13 (as claimed): delete_document(d) returns without raising and a second
\* delete_document(d) finds nothing to delete, so it changes nothing; clear
\* leaves the instance empty and no file, which a second clear leaves so.
C13_Idempotent ==
    [][/\ last'.op = "delete" =>
             /\ ~last'.raised
             /\ NothingToDelete(inst'[Main], last'.document_id)
       /\ last'.op = "clear" =>
             /\ inst'[Main] = InitializeNewIndex
             /\ ClearFiles(disk') = disk']_vars

\* C14: on an instance without vectors (never filled, cleared, or emptied by
\* a delete) search returns the empty result and does not raise, whatever the
\* query and top_k.
C14_EmptySearch ==
    NTotal(inst[Main].index) = 0 =>
        /\ \A query \in Queries, top_k \in TopKs :
              /\ SearchResults(inst[Main], query, top_k) = {<<>>}
              /\ ~SearchRaises(inst[Main], query, top_k)
        /\ last.op = "search" => (~last.raised /\ last.res = <<>>)

\* a search ran on an instance that had been filled and was emptied again
C14_Witness ==
    /\ last.op = "search"
    /\ ~last.raised
    /\ last.res = <<>>
    /\ NTotal(inst[Main].index) = 0
    /\ committed # {}

\* similarity a is at least similarity b (fractions with positive denominators)
AtLeast(a, b) == a.num * b.den >= b.num * a.den

\* the result res is in descending order of similarity, and each entry pairs
\* the text and the record of one slot of st, scored for that slot's vector
RankedFromSlots(st, res, query) ==
    /\ \A k \in 1..(Len(res) - 1) : AtLeast(res[k].similarity, res[k + 1].similarity)
    /\ \A k \in DOMAIN res :
          \E i \in DOMAIN st.metadata :
              /\ res[k].text = st.documents[i]
              /\ res[k].meta = st.metadata[i]
              /\ res[k].similarity = Similarity(st.index.vecs[i].v, query)

\* C15: on an instance of n >= 1 vectors, for a query of the index's dimension
\* and every top_k >= 1, search returns, without raising, min(top_k, n)
\* results (all n when top_k exceeds n), in descending order of similarity,
\* the k-th text and the k-th record taken from the same slot.
C15_TopKRanked ==
    LET st == inst[Main]
        n == NTotal(st.index)
    IN  /\ \A query \in Queries, top_k \in TopKs :
              (n >= 1 /\ QueryMatches(st.index, query)) =>
                  /\ ~SearchRaises(st, query, top_k)
                  /\ SearchResults(st, query, top_k) # {}
                  /\ \A res \in SearchResults(st, query, top_k) :
                        /\ Len(res) = IF top_k < n THEN top_k ELSE n
                        /\ RankedFromSlots(st, res, query)
        /\ (last.op = "search" /\ ~last.raised /\ n >= 1) =>
                  Len(last.res) = IF last.n < n THEN last.n ELSE n

\* a search with top_k above the number of slots returned all three slots,
\* not all at one distance
C15_Witness ==
    /\ last.op = "search"
    /\ ~last.raised
    /\ last.n = TOP_K_RETRIEVAL
    /\ NTotal(inst[Main].index) = 3
    /\ Len(last.res) = 3
    /\ last.res[1].similarity # last.res[3].similarity

DocumentIdsOf(st) == [i \in DOMAIN st.metadata |-> st.metadata[i].document_id]

\* the stored vector of the slot whose record is meta
VectorOf(st, meta) ==
    st.index.vecs[CHOOSE i \in DOMAIN st.metadata : st.metadata[i] = meta].v

\* res has two entries: A's chunk of vector [1,0] first, with similarity 1, and
\* A's chunk of vector [1,1] second
ExampleRanking(st, res) ==
    /\ Len(res) = 2
    /\ res[1].meta.document_id = "A"
    /\ VectorOf(st, res[1].meta) = <<1, 0>>
    /\ res[1].similarity = [num |-> 1, den |-> 1]
    /\ res[2].meta.document_id = "A"
    /\ VectorOf(st, res[2].meta) = <<1, 1>>

\* C17: once A's chunks ([1,0], [0,1], [1,1]) and then B's ([0,1], [-1,0]) are
\* added, search([1,0], top_k = 2) ranks the [1,0] chunk first with similarity
\* 1 and the [1,1] chunk second; delete_document("B") then returns leaving
\* exactly 3 slots, none of B, and the same search has the same top result.
C17_Scenario ==
    [][LET q == <<1, 0>>
           before == SearchResults(inst[Main], q, 2)
           after == SearchResults(inst'[Main], q, 2)
       IN  /\ DocumentIdsOf(inst'[Main]) = <<"A", "A", "A", "B", "B">> =>
                 /\ ~SearchRaises(inst'[Main], q, 2)
                 /\ after # {}
                 /\ \A res \in after : ExampleRanking(inst'[Main], res)
           /\ (/\ DocumentIdsOf(inst[Main]) = <<"A", "A", "A", "B", "B">>
               /\ last'.op = "delete"
               /\ last'.document_id = "B") =>
                 /\ ~last'.raised
                 /\ DocumentIdsOf(inst'[Main]) = <<"A", "A", "A">>
                 /\ ~SearchRaises(inst'[Main], q, 2)
                 /\ after # {}
                 /\ \A r1 \in before, r2 \in after : r2[1] = r1[1]]_vars

\* B was deleted from the store of A's three and B's two chunks
C17_Witness ==
    /\ last.op = "delete"
    /\ last.document_id = "B"
    /\ last.n = 2
    /\ ~last.raised
    /\ DocumentIdsOf(inst[Main]) = <<"A", "A", "A">>
    /\ nextChunk > ScenarioChunks

(***************************************************************************)
(* Slot order under add and delete (sequential specification).             *)
(***************************************************************************)
\* slot i of instance a and slot k of instance b hold the same vector, record
\* and text
SameSlot(a, i, b, k) ==
    /\ a.index.vecs[i] = b.index.vecs[k]
    /\ a.metadata[i] = b.metadata[k]
    /\ a.documents[i] = b.documents[k]

\* C18: an add that stored its batch on an instance of n slots leaves slots
\* 0..n-1 as they were and puts element j of the batch, in input order, at
\* slot n+j with a record made for that slot; and no call other than delete
\* and clear moves a chunk the instance holds to another slot.
C18_AddAppends ==
    [][LET old == inst[Main]
           new == inst'[Main]
           n == Len(old.metadata)
       IN  /\ (last'.op = "add" /\ last'.n > 0 /\ ~last'.raised) =>
                 /\ NTotal(new.index) = n + last'.n
                 /\ Len(new.metadata) = n + last'.n
                 /\ Len(new.documents) = n + last'.n
                 /\ \A i \in 1..n : SameSlot(new, i, old, i)
                 /\ \A j \in 1..last'.n :
                       /\ new.index.vecs[n + j].chunk = nextChunk + j - 1
                       /\ new.metadata[n + j].chunk = nextChunk + j - 1
                       /\ new.documents[n + j] = nextChunk + j - 1
                       /\ new.metadata[n + j].doc_id = n + j - 1
                       /\ new.metadata[n + j].chunk_index = j - 1
           /\ last'.op \notin {"delete", "clear"} =>
                 \A i \in DOMAIN old.metadata, k \in DOMAIN new.metadata :
                     (\/ new.metadata[k].chunk = old.metadata[i].chunk
                      \/ new.index.vecs[k].chunk = old.index.vecs[i].chunk
                      \/ new.documents[k] = old.documents[i]) => k = i]_vars

\* a batch of two chunks was added to an instance of one slot
C18_Witness ==
    /\ last.op = "add"
    /\ ~last.raised
    /\ last.n = 2
    /\ Len(inst[Main].metadata) = 3

\* C19: delete_document(d) leaves exactly the slots whose record is not of d,
\* in the order they had, each with the vector, record and text it had before.
C19_DeleteKeepsOrder ==
    [][last'.op = "delete" =>
          LET old == inst[Main]
              new == inst'[Main]
              kept == {i \in DOMAIN old.metadata :
                          old.metadata[i].document_id # last'.document_id}
              Nth(j) == CHOOSE i \in kept : Cardinality({k \in kept : k <= i}) = j
          IN  /\ NTotal(new.index) = Cardinality(kept)
              /\ Len(new.metadata) = Cardinality(kept)
              /\ Len(new.documents) = Cardinality(kept)
              /\ \A j \in 1..Cardinality(kept) : SameSlot(new, j, old, Nth(j))]_vars

\* the middle one of three slots was deleted: the records made for slots 0 and
\* 2 are now in slots 0 and 1
C19_Witness ==
    /\ last.op = "delete"
    /\ ~last.raised
    /\ last.n = 1
    /\ Len(inst[Main].metadata) = 2
    /\ inst[Main].metadata[1].doc_id = 0
    /\ inst[Main].metadata[2].doc_id = 2

(***************************************************************************)
(* Properties of the specification of several tenants.                     *)
(***************************************************************************)
\* the chunks instance st holds, in its index, its records or its texts
ChunksHeld(st) ==
    {st.index.vecs[i].chunk : i \in DOMAIN st.index.vecs}
        \cup {st.metadata[i].chunk : i \in DOMAIN st.metadata}
        \cup {st.documents[i] : i \in DOMAIN st.documents}

\* C20: a call on the store of one college leaves the instance and the
\* artifacts of every other college as they were; the instance and the
\* artifacts of a college hold only chunks that were added to that college,
\* and so does the result of every search on it.
C20_TenantIsolation ==
    /\ [][\A c \in CollegeIds :
             c # last'.college_id =>
                 /\ inst'[c] = inst[c]
                 /\ disk'[CollegeDir(c)] = disk[CollegeDir(c)]]_vars
    /\ [](\A c \in CollegeIds :
             /\ ChunksHeld(inst[c]) \subseteq committed[c]
             /\ ChunksHeld(LoadOrInitialize(disk[CollegeDir(c)])) \subseteq committed[c])
    /\ []((last.op = "search" /\ ~last.raised) =>
             \A k \in DOMAIN last.res : last.res[k].text \in committed[last.college_id])

\* a search on one college returned chunks while another college held chunks
\* of its own, in memory and on disk
C20_Witness ==
    /\ last.op = "search"
    /\ ~last.raised
    /\ Len(last.res) > 0
    /\ \E c \in CollegeIds :
          /\ c # last.college_id
          /\ Len(inst[c].metadata) > 0
          /\ LoadOrInitialize(disk[CollegeDir(c)]) = inst[c]

(***************************************************************************)
(* Normalisation, record ids and the frame of search (sequential           *)
(* specification).                                                         *)
(***************************************************************************)
\* v stands for a unit vector: it is the primitive vector of its direction
IsUnit(v) == GcdSeq(v) = 1

\* the similarity s lies in [-1, 1]
InUnitRange(s) == -s.den <= s.num /\ s.num <= s.den

C28_DocIdIsSlot ==
    LET metadata == inst[Main].metadata
    IN  /\ \A i \in DOMAIN metadata : metadata[i].doc_id = i - 1
        /\ \A i, j \in DOMAIN metadata :
              metadata[i].doc_id = metadata[j].doc_id => i = j

\* C30: a search, whatever the instance, the query and top_k, and whether it
\* returns or raises, leaves the index, the records (no score is written into
\* them), the texts and the three artifacts as they were.
C30_SearchReadOnly ==
    [][last'.op = "search" => (inst' = inst /\ disk' = disk)]_vars

\* a search returned scored results from an instance that is on disk
C30_Witness ==
    /\ last.op = "search"
    /\ ~last.raised
    /\ Len(last.res) > 1
    /\ disk = Triple(inst[Main])

(***************************************************************************)
(* Property of the specification with unequal batches.                     *)
(***************************************************************************)
\* C27 (as claimed): an add with another number of embeddings than of chunks
\* changes nothing, so the index, the records and the texts of the instance
\* and of the artifacts always have the same length.
C27_UnequalRejected ==
    /\ NTotal(inst[Main].index) = Len(inst[Main].metadata)
    /\ Len(inst[Main].documents) = Len(inst[Main].metadata)
    /\ NTotal(disk.index.data) = Len(disk.metadata.data)
    /\ Len(disk.documents.data) = Len(disk.metadata.data)

(***************************************************************************)
(* The services.                                                           *)
(***************************************************************************)
\* the store the next get_or_create of the college loads
Durable == LoadOrInitialize(disk)

\* the committed rows of document_chunks of document d
RowsOf(d) == {r \in db.chunks : r.document_id = d}

\* C22: when the store of the college holds no slot and the query was
\* embedded, search returns no chunk and process_query raises nothing; and
\* when search returns no chunk, process_query raises nothing and returns the
\* "no information" response with an empty list of sources.
C22_EmptyResultOk ==
    last.op = "query" =>
        /\ (Len(Durable.metadata) = 0 /\ last.error.kind # "embed_query")
              => (~last.raised /\ last.found = 0)
        /\ last.found = 0 =>
              /\ ~last.raised
              /\ last.response = "no_information"
              /\ last.sources = <<>>

\* a query that found nothing, asked while a document has a row
C22_Witness ==
    /\ last.op = "query"
    /\ last.found = 0
    /\ last.response = "no_information"
    /\ \E d \in DocIds : db.documents[d].status = "row"

\* C23: when embed_query raises, process_query returns a response: nothing
\* is raised to its caller.
C23_ProviderDownDegrades ==
    (last.op = "query" /\ last.error.kind = "embed_query") => ~last.raised

\* embed_query raised and process_query raised it to its caller
C23_Witness ==
    /\ last.op = "query"
    /\ last.error.kind = "embed_query"
    /\ last.raised
    /\ last.response = ""

\* C24: process_document of a row whose file has an extension without a
\* loader fails with the error that names the extension, leaves the
\* artifacts of the store and the rows of document_chunks as they were,
\* leaves the document unprocessed and leaves the rows of the other documents
\* as they were.
C24_UnsupportedFormat ==
    [][\A d \in DocIds :
          (/\ last'.op = "process"
           /\ last'.document_id = d
           /\ db.documents[d].pending
           /\ db.documents[d].status = "row"
           /\ db.documents[d].file.extension \notin
                  {".pdf", ".docx", ".doc", ".txt", ".csv", ".html", ".htm", ".md"})
          => /\ last'.failed
             /\ last'.error = [kind |-> "Unsupported file type",
                               extension |-> db.documents[d].file.extension]
             /\ disk' = disk
             /\ db'.chunks = db.chunks
             /\ ~db'.documents[d].processed
             /\ \A e \in DocIds \ {d} : db'.documents[e] = db.documents[e]]_vars

\* the ingestion of a .xyz file failed while the store held slots of another
\* document
C24_Witness ==
    /\ last.op = "process"
    /\ last.failed
    /\ last.error.extension = ".xyz"
    /\ ~db.documents[last.document_id].processed
    /\ SlotsOf(Durable.metadata, last.document_id) = {}
    /\ Len(Durable.metadata) > 0

\* C25: after process_document has processed a document of n chunks, the last
\* n slots of the store are its chunks with chunk_index 0, 1, ..., n-1 in
\* ascending slot order.
C25_ChunkIndexOrder ==
    \A d \in DocIds :
        (/\ last.op = "process"
         /\ last.document_id = d
         /\ db.documents[d].status = "row"
         /\ db.documents[d].processed)
        => LET n == db.documents[d].file.n
               metadata == Durable.metadata
           IN  /\ Len(metadata) >= n
               /\ \A j \in 1..n :
                     metadata[Len(metadata) - n + j].chunk_index = j - 1

\* a markdown document was processed and its first slot carries the
\* chunk_index of the front matter
C25_Witness ==
    /\ last.op = "process"
    /\ db.documents[last.document_id].processed
    /\ db.documents[last.document_id].file.extension = ".md"
    /\ \E i \in DOMAIN Durable.metadata :
          /\ Durable.metadata[i].document_id = last.document_id
          /\ Durable.metadata[i].chunk_index = 7

C29_IngestAllOrNothing ==
    \A d \in DocIds :
        /\ (last.op = "process" /\ last.document_id = d /\ last.failed)
             => /\ RowsOf(d) = {}
                /\ SlotsOf(Durable.metadata, d) = {}
                /\ ~db.documents[d].processed
        /\ (last.op = "process" /\ last.document_id = d
               /\ db.documents[d].status = "row" /\ db.documents[d].processed)
             => Len(Durable.metadata) >= db.documents[d].file.n

\* embed_documents raised after two rows were staged, and both rows are
\* committed while the store has no slot of the document
C29_Witness ==
    /\ last.op = "process"
    /\ last.failed
    /\ last.error.kind = "embed_documents"
    /\ Cardinality(RowsOf(last.document_id)) = 2
    /\ SlotsOf(Durable.metadata, last.document_id) = {}
    /\ ~db.documents[last.document_id].processed

=============================================================================
